---- MODULE Spec2Model ----
(***************************************************************************)
(* A model of the k-mer similarity search engine: KmerVectorizer and       *)
(* cosine_similarity (src/model/kmer.py), ReferenceDatabase                *)
(* (src/search/database.py) and SequenceQueryEngine (src/query/engine.py). *)
(*                                                                         *)
(* Representation.                                                         *)
(*  - A Python str is a tuple of one-character strings.                    *)
(*  - A float is an exact rational <<n, d>> in lowest terms with d > 0.    *)
(*  - A numpy vector is a tuple of such rationals.                         *)
(*  - A Python object held in ReferenceDatabase.sequences or stored in the *)
(*    pickle file is [type |-> "list" | "dict", value |-> tuple].          *)
(***************************************************************************)
EXTENDS Integers, Sequences, FiniteSets, TLC

VARIABLES db, file, persisted, out

vars == <<db, file, persisted, out>>

(***************************************************************************)
(* Bounds of the model.                                                    *)
(***************************************************************************)
MaxK == 2
MaxQueryLen == 2
MaxTopK == 2
MaxDim == 2

Ks == 1..MaxK

(***************************************************************************)
(* Generic helpers.                                                        *)
(***************************************************************************)
Min(a, b) == IF a < b THEN a ELSE b
Max(a, b) == IF a > b THEN a ELSE b

RECURSIVE Pow4(_)
Pow4(n) == IF n = 0 THEN 1 ELSE 4 * Pow4(n - 1)

RECURSIVE GCD(_, _)
GCD(a, b) == IF b = 0 THEN a ELSE GCD(b, a % b)

\* The tuple that a function with domain 1..n is, in explicit form.
Tuple(f) == f \o <<>>

\* All tuples over S of length at most n.
RECURSIVE TuplesUpTo(_, _)
TuplesUpTo(S, n) ==
  IF n = 0 THEN {<<>>}
  ELSE LET T == TuplesUpTo(S, n - 1)
       IN  T \cup {Append(t, x) : t \in {u \in T : Len(u) = n - 1}, x \in S}

(***************************************************************************)
(* Floats as exact rationals.                                              *)
(***************************************************************************)
Rat(n, d) == LET g == GCD(n, d) IN <<n \div g, d \div g>>
Zero == <<0, 1>>
RatAdd(a, b) == Rat(a[1] * b[2] + b[1] * a[2], a[2] * b[2])
RatMul(a, b) == IF a[1] = 0 \/ b[1] = 0 THEN <<0, 1>> ELSE Rat(a[1] * b[1], a[2] * b[2])
RatLess(a, b) == a[1] * b[2] < b[1] * a[2]

\* The sum of v[lo..hi]; exact, so the order of the additions is immaterial.
RECURSIVE RatSumRange(_, _, _)
RatSumRange(v, lo, hi) ==
  IF lo > hi THEN Zero
  ELSE IF lo = hi THEN v[lo]
  ELSE LET mid == (lo + hi) \div 2
       IN  RatAdd(RatSumRange(v, lo, mid), RatSumRange(v, mid + 1, hi))

NonZero(x) == x[1] # 0

\* The sum of the components of v (the zero ones add nothing).
RatSum(v) ==
  LET w == SelectSeq(v, NonZero)
  IN  RatSumRange(w, 1, Len(w))

(***************************************************************************)
(* str.upper() and str.replace('N', 'A'), character by character.          *)
(***************************************************************************)
UpperChar(c) ==
  CASE c = "a" -> "A"
    [] c = "t" -> "T"
    [] c = "c" -> "C"
    [] c = "g" -> "G"
    [] c = "n" -> "N"
    [] c = "x" -> "X"
    [] OTHER -> c

Upper(s) == Tuple([i \in 1..Len(s) |-> UpperChar(s[i])])

ReplaceNA(s) == Tuple([i \in 1..Len(s) |-> IF s[i] = "N" THEN "A" ELSE s[i]])

(***************************************************************************)
(* KmerVectorizer.                                                         *)
(***************************************************************************)
bases == <<"A", "T", "C", "G">>

\* itertools.product(bases, repeat=k), in its enumeration order (the last
\* position varies fastest), as a tuple of k-mers.
RECURSIVE Product(_)
Product(k) ==
  IF k = 0 THEN << <<>> >>
  ELSE LET P == Product(k - 1)
       IN  Tuple([i \in 1..(4 * Len(P)) |->
                    Append(P[((i - 1) \div 4) + 1], bases[((i - 1) % 4) + 1])])

\* The enumerations for the k of the model, computed once as __init__ does.
Products == Tuple([k \in 1..MaxK |-> Product(k)])

\* self.vocab: k-mer -> index (0-based, as enumerate gives it).
vocab(k) ==
  LET P == Products[k]
  IN  [kmer \in {P[i] : i \in 1..Len(P)} |->
         (CHOOSE i \in 1..Len(P) : P[i] = kmer) - 1]

vocab_size(k) == Len(Products[k])

\* KmerVectorizer.tokenize: the valid windows, in order.
tokenize(k, sequence) ==
  LET s == ReplaceNA(Upper(sequence))
      valid(i) == \A j \in i..(i + k - 1) : s[j] \in {"A", "T", "C", "G"}
      RECURSIVE walk(_)
      walk(i) ==
        IF i > Len(s) - k + 1 THEN <<>>
        ELSE IF valid(i) THEN <<SubSeq(s, i, i + k - 1)>> \o walk(i + 1)
        ELSE walk(i + 1)
  IN  walk(1)

\* collections.Counter(kmers)
Counter(kmers) ==
  [kmer \in {kmers[i] : i \in 1..Len(kmers)} |->
     Cardinality({i \in 1..Len(kmers) : kmers[i] = kmer})]

\* vectorize dividing by the number of windows, len(sequence) - k + 1,
\* instead of the number of valid k-mers.
vectorize_by_window_count(k, sequence) ==
  LET kmers == tokenize(k, sequence)
      kmer_counts == Counter(kmers)
      P == Products[k]
      windows == Len(sequence) - k + 1
  IN  Tuple([i \in 1..Len(P) |->
               IF P[i] \in DOMAIN kmer_counts /\ windows > 0
               THEN Rat(kmer_counts[P[i]], windows) ELSE Zero])

\* KmerVectorizer.vectorize
vectorize(k, sequence) ==
  LET kmers == tokenize(k, sequence)
      kmer_counts == Counter(kmers)
      counted == DOMAIN kmer_counts
      P == Products[k]
      voc == {P[i] : i \in 1..Len(P)}
      vector == Tuple([i \in 1..Len(P) |->
                         IF P[i] \in counted /\ P[i] \in voc
                         THEN <<kmer_counts[P[i]], 1>> ELSE Zero])
      total == Len(kmers)
  IN  IF total > 0
      THEN Tuple([i \in 1..Len(vector) |->
                    IF NonZero(vector[i])
                    THEN Rat(vector[i][1], vector[i][2] * total) ELSE Zero])
      ELSE vector

(***************************************************************************)
(* cosine_similarity.  The returned float is carried by its square         *)
(* (dot^2 / (norm1^2 * norm2^2)), exact; frequency vectors are             *)
(* non-negative, so the order of the squares is the order of the scores.   *)
(* kind is "float", "nan", "inf" or "ValueError" (np.dot on vectors of     *)
(* different lengths raises).                                              *)
(***************************************************************************)
NormSq(v) == RatSum(Tuple([i \in 1..Len(v) |-> RatMul(v[i], v[i])]))

Float(sq) == [kind |-> "float", sq |-> sq]
NaN == [kind |-> "nan", sq |-> Zero]
Inf == [kind |-> "inf", sq |-> Zero]
ShapeError == [kind |-> "ValueError", sq |-> Zero]

\* np.dot(vec1, vec2) / (norm1 * norm2), squared
DotOverNorms(vec1, vec2) ==
  IF Len(vec1) # Len(vec2) THEN ShapeError
  ELSE LET dot == RatSum(Tuple([i \in 1..Len(vec1) |-> RatMul(vec1[i], vec2[i])]))
           den == RatMul(NormSq(vec1), NormSq(vec2))
       IN  IF den[1] = 0
           THEN (IF dot[1] = 0 THEN NaN ELSE Inf)
           ELSE Float(Rat(dot[1] * dot[1] * den[2], dot[2] * dot[2] * den[1]))

cosine_similarity_unguarded(vec1, vec2) == DotOverNorms(vec1, vec2)

cosine_similarity(vec1, vec2) ==
  IF NormSq(vec1)[1] = 0 \/ NormSq(vec2)[1] = 0
  THEN Float(Zero)
  ELSE DotOverNorms(vec1, vec2)

(***************************************************************************)
(* FASTA text.  A text is a tuple of lines (the pieces between '\n'); a    *)
(* line is a str.                                                          *)
(***************************************************************************)
IsSpace(c) == c \in {" ", "\t", "\r"}

RECURSIVE LStrip(_)
LStrip(s) == IF s # <<>> /\ IsSpace(s[1]) THEN LStrip(Tail(s)) ELSE s

RECURSIVE RStrip(_)
RStrip(s) ==
  IF s # <<>> /\ IsSpace(s[Len(s)]) THEN RStrip(SubSeq(s, 1, Len(s) - 1)) ELSE s

\* str.strip() of one line
Strip(s) == RStrip(LStrip(s))

\* fasta_content.strip().split('\n'): leading and trailing whitespace, line
\* breaks included, is removed before the split; the split of '' is [''].
RECURSIVE DropBlankHead(_)
DropBlankHead(ls) ==
  IF ls # <<>> /\ Strip(ls[1]) = <<>> THEN DropBlankHead(Tail(ls)) ELSE ls

RECURSIVE DropBlankTail(_)
DropBlankTail(ls) ==
  IF ls # <<>> /\ Strip(ls[Len(ls)]) = <<>>
  THEN DropBlankTail(SubSeq(ls, 1, Len(ls) - 1)) ELSE ls

StripSplit(content) ==
  LET ls == DropBlankTail(DropBlankHead(content))
  IN  IF ls = <<>> THEN << <<>> >>
      ELSE IF Len(ls) = 1 THEN <<Strip(ls[1])>>
      ELSE <<LStrip(ls[1])>> \o SubSeq(ls, 2, Len(ls) - 1) \o <<RStrip(ls[Len(ls)])>>

NoId == [some |-> FALSE, id |-> <<>>]

Concat(parts) ==
  LET RECURSIVE join(_)
      join(i) == IF i > Len(parts) THEN <<>> ELSE parts[i] \o join(i + 1)
  IN  join(1)

\* The loop shared by parse_fasta and parse_fasta_content: sequences,
\* current_id and current_seq after the lines from i on, and the final
\* "don't forget the last sequence".
RECURSIVE FastaLoop(_, _, _, _, _)
FastaLoop(lines, i, sequences, current_id, current_seq) ==
  IF i > Len(lines)
  THEN IF current_id.some
       THEN Append(sequences, [id |-> current_id.id, seq |-> Concat(current_seq)])
       ELSE sequences
  ELSE LET line == Strip(lines[i])
       IN  IF line # <<>> /\ line[1] = ">"
           THEN FastaLoop(lines, i + 1,
                  IF current_id.some
                  THEN Append(sequences,
                         [id |-> current_id.id, seq |-> Concat(current_seq)])
                  ELSE sequences,
                  [some |-> TRUE, id |-> Tail(line)], <<>>)
           ELSE IF line # <<>>
           THEN FastaLoop(lines, i + 1, sequences, current_id,
                          Append(current_seq, line))
           ELSE FastaLoop(lines, i + 1, sequences, current_id, current_seq)

\* query.engine.parse_fasta_content
parse_fasta_content(fasta_content) ==
  FastaLoop(StripSplit(fasta_content), 1, <<>>, NoId, <<>>)

\* search.database.parse_fasta (for line in f)
parse_fasta(fasta_file) == FastaLoop(fasta_file, 1, <<>>, NoId, <<>>)

(***************************************************************************)
(* ReferenceDatabase.                                                      *)
(***************************************************************************)
PyList(items) == [type |-> "list", value |-> items]
PyDict(items) == [type |-> "dict", value |-> items]

Entry(sample_id, sequence_id, sequence, taxonomy, vector) ==
  [sample_id |-> sample_id, sequence_id |-> sequence_id, sequence |-> sequence,
   taxonomy |-> taxonomy, vector |-> vector]

\* ReferenceDatabase.__init__
NewDatabase(k) == [k |-> k, sequences |-> PyList(<<>>)]

\* The hardcoded records of create_sample_database.  Each sequence is cut to
\* its first ten bases (the records differ at the ninth: asv1 of sample1 has
\* G where the three others, identical to each other, have T), and each
\* taxonomy to its genus.
sample_sequences ==
  << [sample_id |-> "sample1", sequence_id |-> "asv1",
      sequence |-> <<"T","A","C","G","T","A","G","G","G","G">>,
      taxonomy |-> "Escherichia"],
     [sample_id |-> "sample1", sequence_id |-> "asv2",
      sequence |-> <<"T","A","C","G","T","A","G","G","T","G">>,
      taxonomy |-> "Lactobacillus"],
     [sample_id |-> "sample2", sequence_id |-> "asv1",
      sequence |-> <<"T","A","C","G","T","A","G","G","T","G">>,
      taxonomy |-> "Lactobacillus"],
     [sample_id |-> "sample3", sequence_id |-> "asv1",
      sequence |-> <<"T","A","C","G","T","A","G","G","T","G">>,
      taxonomy |-> "Bacteroides"] >>

\* ReferenceDatabase.create_sample_database: the new self.sequences
create_sample_database(k) ==
  PyList(Tuple([i \in 1..Len(sample_sequences) |->
            LET seq_data == sample_sequences[i]
            IN  Entry(seq_data.sample_id, seq_data.sequence_id, seq_data.sequence,
                      seq_data.taxonomy, vectorize(k, seq_data.sequence))]))

\* taxonomy_mapping.get(record['id']) if taxonomy_mapping else None; a
\* mapping is a set of <<id, taxonomy>> pairs, None the empty one.
TaxonomyOf(taxonomy_mapping, id) ==
  IF \E m \in taxonomy_mapping : m[1] = id
  THEN (CHOOSE m \in taxonomy_mapping : m[1] = id)[2]
  ELSE "None"

\* ReferenceDatabase.create_from_fasta: the new self.sequences
create_from_fasta(k, fasta_file, taxonomy_mapping) ==
  LET records == parse_fasta(fasta_file)
  IN  PyList(Tuple([i \in 1..Len(records) |->
                Entry("reference", records[i].id, records[i].seq,
                      TaxonomyOf(taxonomy_mapping, records[i].id),
                      vectorize(k, records[i].seq))]))

(***************************************************************************)
(* pickle.  The stream is a tuple of tokens: a header, the type of the     *)
(* pickled object, its items flattened field by field, and a final STOP.   *)
(***************************************************************************)
EntryTokens(e) == <<e.sample_id, e.sequence_id, e.sequence, e.taxonomy, e.vector>>

\* pickle.dump(obj, f): the bytes written
PickleDump(obj) ==
  LET RECURSIVE body(_)
      body(i) ==
        IF i > Len(obj.value) THEN <<>>
        ELSE (IF obj.type = "list" THEN EntryTokens(obj.value[i])
              ELSE obj.value[i]) \o body(i + 1)
  IN  <<"PICKLE", obj.type>> \o body(1) \o <<"STOP">>

Unpickled(obj) == [ok |-> TRUE, obj |-> obj]
UnpicklingError == [ok |-> FALSE, obj |-> PyList(<<>>)]

\* pickle.load(f): the object, or an UnpicklingError
PickleLoad(bytes) ==
  IF Len(bytes) < 3 \/ bytes[1] # "PICKLE" \/ bytes[Len(bytes)] # "STOP"
  THEN UnpicklingError
  ELSE LET body == SubSeq(bytes, 3, Len(bytes) - 1)
       IN  IF bytes[2] = "list" /\ Len(body) % 5 = 0
           THEN Unpickled(PyList(Tuple([i \in 1..(Len(body) \div 5) |->
                  Entry(body[5 * i - 4], body[5 * i - 3], body[5 * i - 2],
                        body[5 * i - 1], body[5 * i])])))
           ELSE IF bytes[2] = "dict" /\ Len(body) % 2 = 0
           THEN Unpickled(PyDict(Tuple([i \in 1..(Len(body) \div 2) |->
                  <<body[2 * i - 1], body[2 * i]>>])))
           ELSE UnpicklingError

\* What the storage location can hold without ReferenceDatabase.save having
\* written it: bytes that are no pickle, and the pickle of {"version": 1}.
NotAPickle == <<"JUNK", "JUNK", "JUNK">>
ForeignPickle == <<"PICKLE", "dict", "version", 1, "STOP">>

NoFile == [exists |-> FALSE, bytes |-> <<>>]
NotPersisted == [valid |-> FALSE, obj |-> PyList(<<>>)]

\* save opening the file for appending ("ab") instead of truncating it.
save_appending(d) ==
  [exists |-> TRUE, bytes |-> file.bytes \o PickleDump(d.sequences)]

\* ReferenceDatabase.save: the file after open(filepath, "wb") and pickle.dump
save(d) == [exists |-> TRUE, bytes |-> PickleDump(d.sequences)]

\* load extending self.sequences with what the file holds instead of
\* replacing it.
load_extending(d, f) ==
  IF ~f.exists
  THEN [returned |-> FALSE, raised |-> "none", sequences |-> d.sequences]
  ELSE LET r == PickleLoad(f.bytes)
       IN  IF r.ok
           THEN [returned |-> TRUE, raised |-> "none",
                 sequences |-> [type |-> r.obj.type,
                                value |-> d.sequences.value \o r.obj.value]]
           ELSE [returned |-> FALSE, raised |-> "UnpicklingError",
                 sequences |-> d.sequences]

\* ReferenceDatabase.load: what it returns or raises, and self.sequences after
load(d, f) ==
  IF ~f.exists
  THEN [returned |-> FALSE, raised |-> "none", sequences |-> d.sequences]
  ELSE LET r == PickleLoad(f.bytes)
       IN  IF r.ok
           THEN [returned |-> TRUE, raised |-> "none", sequences |-> r.obj]
           ELSE [returned |-> FALSE, raised |-> "UnpicklingError",
                 sequences |-> d.sequences]

(***************************************************************************)
(* SequenceQueryEngine.                                                    *)
(***************************************************************************)
Match(ref_seq, similarity) ==
  [sample_id |-> ref_seq.sample_id, sequence_id |-> ref_seq.sequence_id,
   similarity_score |-> similarity, taxonomy |-> ref_seq.taxonomy]

\* The scoring loop of query_single_sequence and of query_fasta_sequences
\* over self.reference_db.sequences: the similarities list, or the exception
\* that ends the loop, and the number of cosine_similarity calls that
\* returned.  Iterating a dict yields its keys, and indexing a key (a str)
\* with "vector" raises TypeError.
Similarities(d, query_vector) ==
  LET items == d.sequences.value
      n == Len(items)
  IN  IF d.sequences.type # "list"
      THEN [status |-> IF n = 0 THEN "ok" ELSE "TypeError", scored |-> 0,
            similarities |-> <<>>]
      ELSE LET sim == Tuple([i \in 1..n |->
                              cosine_similarity(query_vector, items[i].vector)])
               bad == {i \in 1..n : sim[i].kind = "ValueError"}
           IN  IF bad # {}
               THEN [status |-> "ValueError",
                     scored |-> (CHOOSE i \in bad : \A j \in bad : i <= j) - 1,
                     similarities |-> <<>>]
               ELSE [status |-> "ok", scored |-> n,
                     similarities |-> Tuple([i \in 1..n |-> Match(items[i], sim[i])])]

\* list.sort(key=similarity_score, reverse=True): a stable sort, equal keys
\* keep their order.  Each element is inserted after the elements whose key
\* is not smaller.
InsertDesc(sorted, x) ==
  LET n == Cardinality({i \in 1..Len(sorted) :
                ~RatLess(sorted[i].similarity_score.sq, x.similarity_score.sq)})
  IN  SubSeq(sorted, 1, n) \o <<x>> \o SubSeq(sorted, n + 1, Len(sorted))

RECURSIVE SortFrom(_, _, _)
SortFrom(list, i, sorted) ==
  IF i > Len(list) THEN sorted
  ELSE SortFrom(list, i + 1, InsertDesc(sorted, list[i]))

SortDesc(similarities) == SortFrom(similarities, 1, <<>>)

\* similarities[:top_k]
Slice(list, top_k) ==
  IF top_k >= 0 THEN SubSeq(list, 1, Min(top_k, Len(list)))
  ELSE SubSeq(list, 1, Max(Len(list) + top_k, 0))

TopMatches(similarities, top_k) == Slice(SortDesc(similarities), top_k)

Outcome(status, message, encoded, scored, result) ==
  [status |-> status, message |-> message, encoded |-> encoded,
   scored |-> scored, result |-> result]

TooShort(k) == <<"Sequence must be at least", k, "bases long">>
NoSequences == <<"No valid sequences found in FASTA content", 0, "">>
NoMessage == <<"", 0, "">>

\* query_single_sequence past its validation: vectorize, score, sort, cut.
ScoreAndRank(d, sequence, top_k) ==
  LET query_vector == vectorize(d.k, sequence)
      s == Similarities(d, query_vector)
  IN  IF s.status # "ok"
      THEN Outcome(s.status, NoMessage, 1, s.scored, <<>>)
      ELSE LET top_matches == TopMatches(s.similarities, top_k)
           IN  Outcome("ok", NoMessage, 1, s.scored,
                       [query_sequence |-> sequence,
                        query_length |-> Len(sequence),
                        matches_found |-> Len(top_matches),
                        results |-> top_matches])

\* query_single_sequence without the length validation, as the batch loop
\* of query_fasta_sequences is.
query_single_sequence_unvalidated(d, sequence, top_k) ==
  ScoreAndRank(d, sequence, top_k)

\* SequenceQueryEngine.query_single_sequence.  encoded counts the calls of
\* vectorize, scored the calls of cosine_similarity that returned.
query_single_sequence(d, sequence, top_k) ==
  IF sequence = <<>> \/ Len(sequence) < d.k
  THEN Outcome("ValueError", TooShort(d.k), 0, 0, <<>>)
  ELSE ScoreAndRank(d, sequence, top_k)

\* The loop of query_fasta_sequences from item i on; acc is the outcome so
\* far, with the results list in acc.result.
RECURSIVE FastaItems(_, _, _, _, _)
FastaItems(d, sequences, top_k, i, acc) ==
  IF i > Len(sequences) THEN acc
  ELSE LET seq_data == sequences[i]
           query_vector == vectorize(d.k, seq_data.seq)
           s == Similarities(d, query_vector)
       IN  IF s.status # "ok"
           THEN Outcome(s.status, NoMessage, acc.encoded + 1,
                        acc.scored + s.scored, <<>>)
           ELSE FastaItems(d, sequences, top_k, i + 1,
                  Outcome("ok", NoMessage, acc.encoded + 1, acc.scored + s.scored,
                    Append(acc.result,
                      [query_sequence_id |-> seq_data.id,
                       query_length |-> Len(seq_data.seq),
                       matches |-> TopMatches(s.similarities, top_k)])))

\* query_fasta_sequences without the test for an empty list of records.
query_fasta_sequences_unchecked(d, fasta_content, top_k) ==
  LET sequences == parse_fasta_content(fasta_content)
      r == FastaItems(d, sequences, top_k, 1, Outcome("ok", NoMessage, 0, 0, <<>>))
  IN  IF r.status # "ok" THEN r
      ELSE [r EXCEPT !.result = [total_sequences |-> Len(sequences),
                                 results |-> r.result]]

\* SequenceQueryEngine.query_fasta_sequences
query_fasta_sequences(d, fasta_content, top_k) ==
  LET sequences == parse_fasta_content(fasta_content)
  IN  IF sequences = <<>>
      THEN Outcome("ValueError", NoSequences, 0, 0, <<>>)
      ELSE LET r == FastaItems(d, sequences, top_k, 1,
                               Outcome("ok", NoMessage, 0, 0, <<>>))
           IN  IF r.status # "ok" THEN r
               ELSE [r EXCEPT !.result = [total_sequences |-> Len(sequences),
                                          results |-> r.result]]

\* The store left by a query that sorts self.reference_db.sequences itself.
reference_db_sorted_by_query(d, sequence, top_k) ==
  LET s == Similarities(d, vectorize(d.k, sequence))
      items == d.sequences.value
      keyed == Tuple([i \in 1..Len(items) |->
                 [ref_seq |-> items[i],
                  similarity_score |-> s.similarities[i].similarity_score]])
      sorted == SortDesc(keyed)
  IN  IF query_single_sequence(d, sequence, top_k).status # "ok" THEN d
      ELSE [d EXCEPT !.sequences =
              PyList(Tuple([i \in 1..Len(sorted) |-> sorted[i].ref_seq]))]

\* self.reference_db after a query.  Both query methods only read
\* self.reference_db.sequences: the scoring loop builds a new dict per entry,
\* and sort and the slice work on that new list.
reference_db_after_query_single(d, sequence, top_k) == d

reference_db_after_query_fasta(d, fasta_content, top_k) == d

(***************************************************************************)
(* main.load_reference_database.  main.py fixes k = 6; the model runs the  *)
(* startup with the largest k it covers.                                   *)
(***************************************************************************)
StartupK == MaxK

load_reference_database(f) ==
  LET d0 == NewDatabase(StartupK)
      l == load(d0, f)
  IN  IF l.raised # "none"
      THEN [raised |-> l.raised, seeded |-> FALSE, db |-> d0, file |-> f]
      ELSE IF ~l.returned
      THEN LET d1 == [d0 EXCEPT !.sequences = create_sample_database(d0.k)]
           IN  [raised |-> "none", seeded |-> TRUE, db |-> d1, file |-> save(d1)]
      ELSE [raised |-> "none", seeded |-> FALSE,
            db |-> [d0 EXCEPT !.sequences = l.sequences], file |-> f]

(***************************************************************************)
(* Inputs.                                                                 *)
(***************************************************************************)
MaxLines == 3
MaxSeqLen == 3

\* Query sequences: a base, a lower-case base and a symbol outside the
\* alphabet.
QueryAlphabet == {"A", "c", "X"}
QuerySeqs == TuplesUpTo(QueryAlphabet, MaxQueryLen)
TopKs == 0..MaxTopK

\* Lines of an uploaded FASTA text: a header and two sequence lines, one of
\* them shorter than k = 2, the other with trailing whitespace.
FastaLines == {<<">", "p">>, <<"A">>, <<"A", "c", " ">>}
FastaContents == TuplesUpTo(FastaLines, MaxLines)

\* Reference FASTA files and taxonomy mappings for create_from_fasta.
RefFastaFiles ==
  { << <<">", "p">>, <<"A", "C">>, <<" ">>, <<">", "q">>, <<"C", "A">>, <<"A">> >> }
TaxonomyMappings == { {}, { << <<"p">>, "Escherichia" >> } }

\* Inputs of the pure functions.
Alphabet == {"A", "T", "C", "G", "N", "a", "n", "X"}
Sequences == TuplesUpTo(Alphabet, MaxSeqLen)
Components == {<<0, 1>>, <<1, 2>>, <<1, 1>>}
Vectors == TuplesUpTo(Components, MaxDim) \ {<<>>}

(***************************************************************************)
(* The state machine.  db is the live ReferenceDatabase instance, file the *)
(* storage location "reference_db.pkl", out the outcome of the call that   *)
(* has just returned or raised (calls are made one at a time: the caller   *)
(* takes the outcome, Return, before it makes the next call).  persisted   *)
(* is history: the object handed to the last save, while the file still    *)
(* holds what that save wrote.                                             *)
(***************************************************************************)
Result(op, args, o) ==
  [op |-> op, args |-> args, status |-> o.status, message |-> o.message,
   encoded |-> o.encoded, scored |-> o.scored, result |-> o.result]

Done(op, args, result) == Result(op, args, Outcome("ok", NoMessage, 0, 0, result))

Idle == Done("idle", <<>>, <<>>)

Init ==
  /\ db \in {NewDatabase(k) : k \in Ks}
  /\ file = NoFile
  /\ persisted = NotPersisted
  /\ out = Idle

Construct(k) ==
  /\ out.op = "idle"
  /\ db' = NewDatabase(k)
  /\ out' = Done("__init__", [k |-> k], <<>>)
  /\ UNCHANGED <<file, persisted>>

CreateSampleDatabase ==
  /\ out.op = "idle"
  /\ db' = [db EXCEPT !.sequences = create_sample_database(db.k)]
  /\ out' = Done("create_sample_database", <<>>, <<>>)
  /\ UNCHANGED <<file, persisted>>

CreateFromFasta(fasta_file, taxonomy_mapping) ==
  /\ out.op = "idle"
  /\ db' = [db EXCEPT !.sequences =
                        create_from_fasta(db.k, fasta_file, taxonomy_mapping)]
  /\ out' = Done("create_from_fasta",
                 [fasta_file |-> fasta_file, taxonomy_mapping |-> taxonomy_mapping],
                 <<>>)
  /\ UNCHANGED <<file, persisted>>

Save ==
  /\ out.op = "idle"
  /\ file' = save(db)
  /\ persisted' = [valid |-> TRUE, obj |-> db.sequences]
  /\ out' = Done("save", <<>>, <<>>)
  /\ UNCHANGED db

Load ==
  LET l == load(db, file)
  IN  /\ out.op = "idle"
      /\ db' = [db EXCEPT !.sequences = l.sequences]
      /\ out' = Result("load", <<>>,
                       Outcome(IF l.raised = "none" THEN "ok" ELSE l.raised,
                               NoMessage, 0, 0, [returned |-> l.returned]))
      /\ UNCHANGED <<file, persisted>>

\* Something other than save writes the storage location.
ExternalWrite(bytes) ==
  /\ out.op = "idle"
  /\ file' = [exists |-> TRUE, bytes |-> bytes]
  /\ persisted' = NotPersisted
  /\ UNCHANGED <<db, out>>

QuerySingle(sequence, top_k) ==
  /\ out.op = "idle"
  /\ out' = Result("query_single_sequence",
                   [sequence |-> sequence, top_k |-> top_k],
                   query_single_sequence(db, sequence, top_k))
  /\ db' = reference_db_after_query_single(db, sequence, top_k)
  /\ UNCHANGED <<file, persisted>>

QueryFasta(fasta_content, top_k) ==
  /\ out.op = "idle"
  /\ out' = Result("query_fasta_sequences",
                   [fasta_content |-> fasta_content, top_k |-> top_k],
                   query_fasta_sequences(db, fasta_content, top_k))
  /\ db' = reference_db_after_query_fasta(db, fasta_content, top_k)
  /\ UNCHANGED <<file, persisted>>

Startup ==
  LET r == load_reference_database(file)
  IN  /\ out.op = "idle"
      /\ db' = r.db
      /\ file' = r.file
      /\ persisted' = IF r.seeded THEN [valid |-> TRUE, obj |-> r.db.sequences]
                      ELSE persisted
      /\ out' = Result("load_reference_database", <<>>,
                       Outcome(IF r.raised = "none" THEN "ok" ELSE r.raised,
                               NoMessage, 0, 0, [seeded |-> r.seeded]))

\* The caller takes the outcome of the call.
Return ==
  /\ out.op # "idle"
  /\ out' = Idle
  /\ UNCHANGED <<db, file, persisted>>

Next ==
  \/ \E k \in Ks : Construct(k)
  \/ CreateSampleDatabase
  \/ \E f \in RefFastaFiles, m \in TaxonomyMappings : CreateFromFasta(f, m)
  \/ Save
  \/ Load
  \/ ExternalWrite(NotAPickle)
  \/ ExternalWrite(ForeignPickle)
  \/ \E s \in QuerySeqs, t \in TopKs : QuerySingle(s, t)
  \/ \E c \in FastaContents, t \in TopKs : QueryFasta(c, t)
  \/ Startup
  \/ Return

Spec == Init /\ [][Next]_vars

(***************************************************************************)
(* The pure functions on their own: the initial state holds a call with    *)
(* arguments drawn from the bounded sets, and the step applies the         *)
(* function to them.                                                       *)
(***************************************************************************)
Pending(op, args) == Result(op, args, Outcome("pending", NoMessage, 0, 0, <<>>))

CallVectorize ==
  /\ out.op = "vectorize" /\ out.status = "pending"
  /\ out' = Done("vectorize", out.args, vectorize(out.args.k, out.args.sequence))
  /\ UNCHANGED <<db, file, persisted>>

CallCosineSimilarity ==
  /\ out.op = "cosine_similarity" /\ out.status = "pending"
  /\ out' = Done("cosine_similarity", out.args,
                 cosine_similarity(out.args.vec1, out.args.vec2))
  /\ UNCHANGED <<db, file, persisted>>

PureNext == CallVectorize \/ CallCosineSimilarity

PureInit ==
  /\ db = NewDatabase(1)
  /\ file = NoFile
  /\ persisted = NotPersisted
  /\ \/ \E k \in Ks, s \in Sequences : out = Pending("vectorize", [k |-> k, sequence |-> s])
     \/ \E v1 \in Vectors, v2 \in Vectors :
          out = Pending("cosine_similarity", [vec1 |-> v1, vec2 |-> v2])

PureSpec == PureInit /\ [][PureNext]_vars

(***************************************************************************)
(* Properties.                                                             *)
(***************************************************************************)
IsList(obj) == obj.type = "list"
Entries(d) == d.sequences.value
Called(op) == out.op = op /\ out.status # "pending"

\* C1: query_single_sequence on a sequence shorter than k (the empty one
\* included) raises ValueError with the message that cites k, and it does
\* so before vectorize or cosine_similarity is called.
C1_ShortQueryRejected ==
  (Called("query_single_sequence") /\ Len(out.args.sequence) < db.k)
    => /\ out.status = "ValueError"
       /\ out.message = TooShort(db.k)
       /\ out.encoded = 0
       /\ out.scored = 0

C1_Witness ==
  /\ Called("query_single_sequence")
  /\ Len(out.args.sequence) > 0 /\ Len(out.args.sequence) < db.k
  /\ IsList(db.sequences) /\ Len(Entries(db)) > 0
  /\ out.status = "ValueError"

\* C2 (as claimed): query_fasta_sequences on a batch holding a sequence
\* shorter than k (a header-only record included) raises the ValueError of
\* the length validation and returns no result list.
C2_BatchAllOrNothing ==
  (/\ Called("query_fasta_sequences")
   /\ \E i \in 1..Len(parse_fasta_content(out.args.fasta_content)) :
        Len(parse_fasta_content(out.args.fasta_content)[i].seq) < db.k)
    => /\ out.status = "ValueError"
       /\ out.message = TooShort(db.k)

\* The ranking query_single_sequence is to return: the entry of rank r is
\* the one with exactly r - 1 entries before it, where an entry is before
\* another when its score is higher, or equal and it comes earlier in the
\* store.
RankedMatches(d, sequence, top_k) ==
  LET items == Entries(d)
      n == Len(items)
      query_vector == vectorize(d.k, sequence)
      score == Tuple([i \in 1..n |-> cosine_similarity(query_vector, items[i].vector)])
      before(j, i) == \/ RatLess(score[i].sq, score[j].sq)
                      \/ (score[j].sq = score[i].sq /\ j < i)
      rank(i) == Cardinality({j \in 1..n : before(j, i)})
  IN  Tuple([r \in 1..Min(top_k, n) |->
               LET i == CHOOSE i \in 1..n : rank(i) = r - 1
               IN  Match(items[i], score[i])])

RankingHolds ==
  /\ out.status = "ok"
  /\ out.result.matches_found = Min(out.args.top_k, Len(Entries(db)))
  /\ out.result.results = RankedMatches(db, out.args.sequence, out.args.top_k)

\* C3 (as claimed): for every store of n entries, every query of length at
\* least k and every top_k >= 1, query_single_sequence returns the
\* min(top_k, n) highest-scoring entries, in non-increasing order of score,
\* equal scores in store order; zero matches and no error on an empty store.
C3_RankingOnEveryStore ==
  (/\ Called("query_single_sequence")
   /\ IsList(db.sequences)
   /\ Len(out.args.sequence) >= db.k
   /\ out.args.top_k >= 1)
    => RankingHolds

\* C4 (as claimed): every entry a store holds has a vector of length 4^k,
\* k the store's own.
C4_VectorLengthIsVocabSize ==
  IsList(db.sequences)
    => \A i \in 1..Len(Entries(db)) : Len(Entries(db)[i].vector) = Pow4(db.k)

\* The store holds entries only, each built under the store's own k.
WellFormedStore ==
  /\ IsList(db.sequences)
  /\ \A i \in 1..Len(Entries(db)) : Len(Entries(db)[i].vector) = vocab_size(db.k)

\* The ranking of C3 on the stores whose entries were built under their own k.
RankingOnWellFormedStore ==
  (/\ Called("query_single_sequence")
   /\ WellFormedStore
   /\ Len(out.args.sequence) >= db.k
   /\ out.args.top_k >= 1)
    => RankingHolds

\* The file exists and does not hold a list of reference entries.
CorruptOrIncompatible(f) ==
  /\ f.exists
  /\ \/ ~PickleLoad(f.bytes).ok
     \/ ~IsList(PickleLoad(f.bytes).obj)

\* C5 (as claimed): when the file exists and holds anything but a list of
\* reference entries, load raises (it returns neither True nor False), and
\* load_reference_database raises too and does not seed.
C5_CorruptFileIsFatal ==
  ((Called("load") \/ Called("load_reference_database"))
     /\ CorruptOrIncompatible(file))
    => /\ out.status # "ok"
       /\ Called("load") => out.result.returned = FALSE
       /\ Called("load_reference_database") => out.result.seeded = FALSE
       /\ IsList(db.sequences)

\* C6: load on a missing file returns False, raises nothing and leaves
\* self.sequences alone; load on a file that holds what the last save wrote
\* returns True and self.sequences becomes exactly the object saved,
\* whatever it held before.
C6_LoadMissingOrReplace ==
  [][(out.op = "idle" /\ out'.op = "load")
       => /\ ~file.exists
            => /\ out'.status = "ok" /\ out'.result.returned = FALSE
               /\ db' = db
          /\ (file.exists /\ persisted.valid)
            => /\ out'.status = "ok" /\ out'.result.returned = TRUE
               /\ db'.k = db.k
               /\ db'.sequences.type = persisted.obj.type
               /\ db'.sequences = persisted.obj]_vars

C6_Witness ==
  /\ Called("load") /\ out.result.returned = TRUE
  /\ persisted.valid
  /\ IsList(db.sequences) /\ Len(Entries(db)) > 0

\* C7: the file that save wrote decodes to the object that was saved (the
\* same entries, fields, vectors and order), whatever the file held before,
\* and a load from it, by the same or a new instance, holds that object.
C7_SaveLoadRoundTrip ==
  persisted.valid
    => /\ file.exists
       /\ PickleLoad(file.bytes).ok
       /\ PickleLoad(file.bytes).obj.type = persisted.obj.type
       /\ PickleLoad(file.bytes).obj = persisted.obj
       /\ Called("load")
            => /\ out.result.returned = TRUE
               /\ db.sequences.type = persisted.obj.type
               /\ db.sequences = persisted.obj

C7_Witness ==
  /\ persisted.valid /\ IsList(persisted.obj) /\ Len(persisted.obj.value) >= 2
  /\ Called("load")
  /\ db.sequences = persisted.obj

(***************************************************************************)
(* The encoding as the specification words it, for C8.                     *)
(***************************************************************************)
\* Upper-cased, N replaced by A.
Normalized(c) ==
  CASE c \in {"A", "a", "N", "n"} -> "A"
    [] c \in {"T", "t"} -> "T"
    [] c \in {"C", "c"} -> "C"
    [] c \in {"G", "g"} -> "G"
    [] OTHER -> "?"

\* The j-th k-mer of the vocabulary (j from 1): the digits of j - 1 in base
\* four, most significant first, over A, T, C, G.
KmerAt(k, j) ==
  Tuple([p \in 1..k |-> bases[(((j - 1) \div Pow4(k - p)) % 4) + 1]])

WindowAt(k, sequence, i) == Tuple([p \in 1..k |-> Normalized(sequence[i + p - 1])])

Windows(k, sequence) == 1..(Len(sequence) - k + 1)

ValidWindows(k, sequence) ==
  {i \in Windows(k, sequence) : \A p \in 1..k : WindowAt(k, sequence, i)[p] # "?"}

\* C8: entry j of vectorize(k, sequence) is the number of windows equal to
\* the j-th vocabulary k-mer over the number of valid windows; the entries
\* sum to 1 when there is a valid window, and all are 0 when there is none.
C8_FrequencyVector ==
  Called("vectorize")
    => LET k == out.args.k
           sequence == out.args.sequence
           valid == ValidWindows(k, sequence)
           v == out.result
       IN  /\ Len(v) = Pow4(k)
           /\ \A j \in 1..Pow4(k) :
                v[j] = IF valid = {} THEN Zero
                       ELSE Rat(Cardinality({i \in Windows(k, sequence) :
                                   WindowAt(k, sequence, i) = KmerAt(k, j)}),
                                Cardinality(valid))
           /\ valid # {} => RatSum(v) = <<1, 1>>

\* A sequence with a valid window and a discarded one.
C8_Witness ==
  /\ Called("vectorize")
  /\ ValidWindows(out.args.k, out.args.sequence) # {}
  /\ ValidWindows(out.args.k, out.args.sequence) # Windows(out.args.k, out.args.sequence)
  /\ RatSum(out.result) = <<1, 1>>

AllZero(v) == \A i \in 1..Len(v) : v[i] = Zero

\* C9 (as claimed): cosine_similarity on vectors of different lengths raises;
\* it returns no score for them.
C9_LengthMismatchRaises ==
  (Called("cosine_similarity") /\ Len(out.args.vec1) # Len(out.args.vec2))
    => out.result.kind = "ValueError"

\* C10: cosine_similarity returns exactly 0.0 when either vector is all
\* zeros and the other has the same length, and never NaN or infinity.
C10_ZeroNormGivesZero ==
  Called("cosine_similarity")
    => /\ out.result.kind \notin {"nan", "inf"}
       /\ (Len(out.args.vec1) = Len(out.args.vec2)
             /\ (AllZero(out.args.vec1) \/ AllZero(out.args.vec2)))
            => out.result = Float(Zero)

C10_Witness ==
  /\ Called("cosine_similarity")
  /\ Len(out.args.vec1) = Len(out.args.vec2) /\ Len(out.args.vec1) > 0
  /\ AllZero(out.args.vec1) /\ ~AllZero(out.args.vec2)
  /\ out.result = Float(Zero)

\* C11: query_fasta_sequences on a text from which parse_fasta_content gets
\* no record (an empty text, a text with no header line) raises ValueError
\* with the message of the empty batch, which is not the message of a
\* sequence shorter than k for any k, and calls neither vectorize nor
\* cosine_similarity.
C11_EmptyBatchRejected ==
  (Called("query_fasta_sequences")
     /\ parse_fasta_content(out.args.fasta_content) = <<>>)
    => /\ out.status = "ValueError"
       /\ out.message = NoSequences
       /\ \A k \in Ks : out.message # TooShort(k)
       /\ out.encoded = 0
       /\ out.scored = 0

\* A text with sequence lines and no header, against a store with entries.
C11_Witness ==
  /\ Called("query_fasta_sequences")
  /\ out.args.fasta_content # <<>>
  /\ parse_fasta_content(out.args.fasta_content) = <<>>
  /\ IsList(db.sequences) /\ Len(Entries(db)) > 0
  /\ out.status = "ValueError"

\* What query_single_sequence gives for item i of the batch, with the top_k
\* of the batch, against the store as it is.
SingleOf(i) ==
  query_single_sequence(db, parse_fasta_content(out.args.fasta_content)[i].seq,
                        out.args.top_k)

\* The batch call agrees with query_single_sequence on items 1..n: when
\* query_single_sequence succeeds on all of them, one result per item, in
\* input order, each with the matches of query_single_sequence; otherwise
\* the exception of the first item on which query_single_sequence fails.
BatchAgreesWithSingle ==
  LET sequences == parse_fasta_content(out.args.fasta_content)
      n == Len(sequences)
      failing == {i \in 1..n : SingleOf(i).status # "ok"}
  IN  IF failing = {}
      THEN /\ out.status = "ok"
           /\ out.result.total_sequences = n
           /\ Len(out.result.results) = n
           /\ \A i \in 1..n :
                /\ out.result.results[i].query_sequence_id = sequences[i].id
                /\ out.result.results[i].query_length = Len(sequences[i].seq)
                /\ out.result.results[i].matches = SingleOf(i).result.results
      ELSE LET first == CHOOSE i \in failing : \A j \in failing : i <= j
           IN  /\ out.status = SingleOf(first).status
               /\ out.message = SingleOf(first).message

\* C12 (as claimed): for every batch with at least one record and every
\* top_k, query_fasta_sequences returns one result per record, in input
\* order, whose matches are those query_single_sequence returns for that
\* record's sequence, and fails as query_single_sequence does when it fails.
C12_BatchEqualsSingle ==
  (Called("query_fasta_sequences")
     /\ parse_fasta_content(out.args.fasta_content) # <<>>)
    => BatchAgreesWithSingle

\* The agreement of C12 on the batches whose sequences all have length at
\* least k.
BatchEqualsSingleOnLongItems ==
  (/\ Called("query_fasta_sequences")
   /\ parse_fasta_content(out.args.fasta_content) # <<>>
   /\ \A i \in 1..Len(parse_fasta_content(out.args.fasta_content)) :
        Len(parse_fasta_content(out.args.fasta_content)[i].seq) >= db.k)
    => BatchAgreesWithSingle

\* C13: a call of query_single_sequence or query_fasta_sequences, returning
\* or raising, leaves the store as it was (the same entries, in the same
\* order, with the same fields and vectors), and its outcome is the one the
\* query gives on the store it leaves, so that a query is not affected by
\* the queries made before it.
C13_QueriesLeaveStoreUnchanged ==
  [][(out.op = "idle" /\ out'.op \in {"query_single_sequence", "query_fasta_sequences"})
       => /\ db'.k = db.k
          /\ db'.sequences.type = db.sequences.type
          /\ db'.sequences = db.sequences
          /\ out'.op = "query_single_sequence"
               => out' = Result("query_single_sequence", out'.args,
                           query_single_sequence(db', out'.args.sequence,
                                                 out'.args.top_k))
          /\ out'.op = "query_fasta_sequences"
               => out' = Result("query_fasta_sequences", out'.args,
                           query_fasta_sequences(db', out'.args.fasta_content,
                                                 out'.args.top_k))]_vars

\* A query whose best match is not the first entry of the store: the sort
\* reordered the matches.
C13_Witness ==
  /\ Called("query_single_sequence") /\ out.status = "ok"
  /\ IsList(db.sequences) /\ Len(Entries(db)) >= 2
  /\ out.result.matches_found >= 1
  /\ \/ out.result.results[1].sequence_id # Entries(db)[1].sequence_id
     \/ out.result.results[1].sample_id # Entries(db)[1].sample_id

\* A step in which load_reference_database completes without an exception.
StartupCompletes ==
  /\ out.op = "idle"
  /\ out'.op = "load_reference_database"
  /\ out'.status = "ok"

\* After the startup the file decodes to the object the store holds; the
\* store was seeded exactly when there was no file, it then holds the sample
\* entries, and a file that was there is left as it was.
LoadOrSeed ==
  /\ file'.exists
  /\ PickleLoad(file'.bytes).ok
  /\ PickleLoad(file'.bytes).obj.type = db'.sequences.type
  /\ PickleLoad(file'.bytes).obj = db'.sequences
  /\ out'.result.seeded <=> ~file.exists
  /\ out'.result.seeded => db'.sequences = create_sample_database(db'.k)
  /\ file.exists => file' = file

\* C14 (as claimed): whenever load_reference_database completes without an
\* exception, the file holds a persisted store, a list of reference entries,
\* equal to what the store in memory holds; the sample entries are built
\* and saved only when load found no file, and a file that exists is never
\* overwritten.
C14_StartupLoadOrSeed ==
  [][StartupCompletes
       => /\ IsList(PickleLoad(file'.bytes).obj)
          /\ IsList(db'.sequences)
          /\ LoadOrSeed]_vars

\* C14 without the requirement that what the file holds is a list of
\* reference entries.
StartupKeepsFileAndMemoryEqual ==
  [][StartupCompletes => LoadOrSeed]_vars

====
